---- MODULE Spec2Model ----
(***************************************************************************)
(* The five-stage analytics pipeline of analytics_service.py and           *)
(* llm_client.py: query analysis, SQL generation, SQL safety validation,   *)
(* query execution and insight generation, driven by analytics_query.      *)
(*                                                                         *)
(* Texts (questions, completions, statements) are sequences of             *)
(* one-character strings, so that the substring, prefix, case and regular  *)
(* expression operations of the code are computed character by character.  *)
(***************************************************************************)
EXTENDS Naturals, Sequences, FiniteSets, TLC

(***************************************************************************)
(* Text primitives of the Python runtime used by the code.                 *)
(***************************************************************************)

\* The backquote character (a code fence is three of them).
BQ == "bq"

Min(S) == CHOOSE x \in S : \A y \in S : x <= y

Max(S) == CHOOSE x \in S : \A y \in S : y <= x

\* Whitespace as str.strip() and the regular expression class \s see it.
IsSpace(c) == c \in {" ", "\n", "\t", "\r"}

LowerLetters ==
    <<"a","b","c","d","e","f","g","h","i","j","k","l","m",
      "n","o","p","q","r","s","t","u","v","w","x","y","z">>

UpperLetters ==
    <<"A","B","C","D","E","F","G","H","I","J","K","L","M",
      "N","O","P","Q","R","S","T","U","V","W","X","Y","Z">>

Digits == {"0","1","2","3","4","5","6","7","8","9"}

UpperChar(c) ==
    IF \E i \in 1..26 : LowerLetters[i] = c
    THEN UpperLetters[CHOOSE i \in 1..26 : LowerLetters[i] = c]
    ELSE c

LowerChar(c) ==
    IF \E i \in 1..26 : UpperLetters[i] = c
    THEN LowerLetters[CHOOSE i \in 1..26 : UpperLetters[i] = c]
    ELSE c

\* str.upper()
Upper(s) == [i \in 1..Len(s) |-> UpperChar(s[i])]

\* str.lower()
Lower(s) == [i \in 1..Len(s) |-> LowerChar(s[i])]

\* The pattern p occurs in s at position i.
MatchAt(s, i, p) ==
    /\ i >= 1
    /\ i + Len(p) <= Len(s) + 1
    /\ \A k \in 1..Len(p) : s[i + k - 1] = p[k]

\* str.startswith
StartsWith(s, p) == MatchAt(s, 1, p)

\* The first position >= from at which p occurs in s, 0 when there is none.
Find(s, p, from) ==
    LET hits == {i \in from..(Len(s) + 1) : MatchAt(s, i, p)}
    IN  IF hits = {} THEN 0 ELSE Min(hits)

\* The last position at which p occurs in s, 0 when there is none.
FindLast(s, p) ==
    LET hits == {i \in 1..(Len(s) + 1) : MatchAt(s, i, p)}
    IN  IF hits = {} THEN 0 ELSE Max(hits)

\* Python's (p in s) on strings.
Contains(s, p) == Find(s, p, 1) # 0

\* str.count of a single character.
Count(s, c) == Cardinality({i \in 1..Len(s) : s[i] = c})

\* str.strip()
Strip(s) ==
    LET ink == {i \in 1..Len(s) : ~IsSpace(s[i])}
    IN  IF ink = {} THEN <<>> ELSE SubSeq(s, Min(ink), Max(ink))

\* The first position >= i of s that holds no whitespace (Len(s) + 1 at the end).
SkipSpace(s, i) ==
    LET ink == {j \in i..Len(s) : ~IsSpace(s[j])}
    IN  IF ink = {} THEN (IF i > Len(s) + 1 THEN i ELSE Len(s) + 1) ELSE Min(ink)

\* The rest of s from position i on.
From(s, i) == SubSeq(s, i, Len(s))

\* re.sub(p + r'\s*', '', s): every occurrence of p, with the whitespace that
\* follows it, is removed, scanning left to right.
RECURSIVE RemoveWithSpace(_, _)
RemoveWithSpace(s, p) ==
    LET i == Find(s, p, 1)
    IN  IF i = 0
        THEN s
        ELSE SubSeq(s, 1, i - 1)
                 \o RemoveWithSpace(From(s, SkipSpace(s, i + Len(p))), p)

\* sep.join(parts) on a sequence of message fragments.
RECURSIVE Join(_, _)
Join(parts, sep) ==
    IF Len(parts) = 0 THEN <<>>
    ELSE IF Len(parts) = 1 THEN parts[1]
    ELSE parts[1] \o <<sep>> \o Join(Tail(parts), sep)

(***************************************************************************)
(* The literal texts of the code, and the questions and completions the    *)
(* model draws its inputs from ([fence] stands for three backquotes).      *)
(***************************************************************************)

\* '[fence]json'
FenceJson ==
    <<BQ,BQ,BQ,"j","s","o","n">>

\* '[fence]'
Fence ==
    <<BQ,BQ,BQ>>

\* '[fence]sql'
FenceSql ==
    <<BQ,BQ,BQ,"s","q","l">>

\* 'SELECT'
KwSelect ==
    <<"S","E","L","E","C","T">>

\* 'WITH'
KwWith ==
    <<"W","I","T","H">>

\* 'INSERT'
KwInsert ==
    <<"I","N","S","E","R","T">>

\* 'DELETE'
KwDelete ==
    <<"D","E","L","E","T","E">>

\* 'DROP'
KwDrop ==
    <<"D","R","O","P">>

\* 'UPDATE'
KwUpdate ==
    <<"U","P","D","A","T","E">>

\* 'REPLACE'
KwReplace ==
    <<"R","E","P","L","A","C","E">>

\* 'FROM'
KwFrom ==
    <<"F","R","O","M">>

\* 'INTO'
KwInto ==
    <<"I","N","T","O">>

\* 'TABLE'
KwTable ==
    <<"T","A","B","L","E">>

\* 'true'
LitTrue ==
    <<"t","r","u","e">>

\* 'false'
LitFalse ==
    <<"f","a","l","s","e">>

\* 'null'
LitNull ==
    <<"n","u","l","l">>

\* 'type'
KeyType ==
    <<"t","y","p","e">>

\* 'intent'
KeyIntent ==
    <<"i","n","t","e","n","t">>

\* 'columns'
KeyColumns ==
    <<"c","o","l","u","m","n","s">>

\* 'analysis_type'
KeyAnalysisType ==
    <<"a","n","a","l","y","s","i","s","_","t","y","p","e">>

\* 'confidence'
KeyConfidence ==
    <<"c","o","n","f","i","d","e","n","c","e">>

\* 'statistical'
ValStatistical ==
    <<"s","t","a","t","i","s","t","i","c","a","l">>

\* 'general'
ValGeneral ==
    <<"g","e","n","e","r","a","l">>

\* 'descriptive'
ValDescriptive ==
    <<"d","e","s","c","r","i","p","t","i","v","e">>

\* '0.5'
ValHalf ==
    <<"0",".","5">>

\* '[]'
ValEmptyList ==
    <<"[","]">>

\* 'T'
TableT ==
    <<"T">>

\* 'how many orders'
Q_HowMany ==
    <<"h","o","w"," ","m","a","n","y"," ","o","r","d","e","r","s">>

\* 'Total sales'
Q_Total ==
    <<"T","o","t","a","l"," ","s","a","l","e","s">>

\* 'show orders'
Q_Show ==
    <<"s","h","o","w"," ","o","r","d","e","r","s">>

\* 'summary'
Q_Summary ==
    <<"s","u","m","m","a","r","y">>

\* '{"type":"ml","confidence":0.9}'
R_Json ==
    <<"{","\"","t","y","p","e","\"",":","\"","m","l","\"",",","\"","c","o",
      "n","f","i","d","e","n","c","e","\"",":","0",".","9","}">>

\* '[fence]json\n{"confidence":1}\n[fence]'
R_FencedJson ==
    <<BQ,BQ,BQ,"j","s","o","n","\n","{","\"","c","o","n","f","i","d","e",
      "n","c","e","\"",":","1","}","\n",BQ,BQ,BQ>>

\* 'ok {"type":"ml"} .'
R_ProseJson ==
    <<"o","k"," ","{","\"","t","y","p","e","\"",":","\"","m","l","\"","}",
      " ",".">>

\* '{"a":1} {"b":2}'
R_TwoObjects ==
    <<"{","\"","a","\"",":","1","}"," ","{","\"","b","\"",":","2","}">>

\* 'no idea'
R_Prose ==
    <<"n","o"," ","i","d","e","a">>

\* 'Sure:\n[fence]sql\nSELECT id FROM t\n[fence]\nDone.'
R_FencedSelect ==
    <<"S","u","r","e",":","\n",BQ,BQ,BQ,"s","q","l","\n","S","E","L","E",
      "C","T"," ","i","d"," ","F","R","O","M"," ","t","\n",BQ,BQ,BQ,"\n",
      "D","o","n","e",".">>

\* '[fence]sql\nWITH x AS (SELECT 2) REPLACE INTO t SELECT * FROM x\n[fence]'
R_FencedCteReplace ==
    <<BQ,BQ,BQ,"s","q","l","\n","W","I","T","H"," ","x"," ","A","S"," ","(",
      "S","E","L","E","C","T"," ","2",")"," ","R","E","P","L","A","C","E",
      " ","I","N","T","O"," ","t"," ","S","E","L","E","C","T"," ","*"," ",
      "F","R","O","M"," ","x","\n",BQ,BQ,BQ>>

\* 'DELETE FROM t'
R_Delete ==
    <<"D","E","L","E","T","E"," ","F","R","O","M"," ","t">>

\* 'update t set a=(1'
R_UpdateOpen ==
    <<"u","p","d","a","t","e"," ","t"," ","s","e","t"," ","a","=","(","1">>

\* 'select * from nope'
R_SelectMissing ==
    <<"s","e","l","e","c","t"," ","*"," ","f","r","o","m"," ","n","o","p",
      "e">>

\* 'Here: SELECT 1; done'
R_ProseSelect ==
    <<"H","e","r","e",":"," ","S","E","L","E","C","T"," ","1",";"," ","d",
      "o","n","e">>

\* '[fence]\nSELECT 1\n[fence]'
R_BareFence ==
    <<BQ,BQ,BQ,"\n","S","E","L","E","C","T"," ","1","\n",BQ,BQ,BQ>>

(***************************************************************************)
(* json.loads, as parse_json_response uses it: a recursive-descent reading *)
(* of objects, arrays, strings, numbers and the three literals.  A value   *)
(* is [kind, text, members]: text is the value's source span (a string's   *)
(* is its contents), members the key/value pairs of an object in order.    *)
(***************************************************************************)

JsonBad == [ok |-> FALSE, end |-> 0, kind |-> "none", text |-> <<>>, members |-> <<>>]

JsonEscapable == {"\"", "\\", "/", "b", "f", "n", "r", "t"}

\* The position of the quote closing the string whose contents start at i, or 0.
RECURSIVE JsonStringEnd(_, _)
JsonStringEnd(s, i) ==
    IF i > Len(s) THEN 0
    ELSE IF s[i] = "\"" THEN i
    ELSE IF s[i] = "\\"
         THEN IF i + 1 <= Len(s) /\ s[i + 1] \in JsonEscapable
              THEN JsonStringEnd(s, i + 2)
              ELSE 0
    ELSE IF s[i] \in {"\n", "\t", "\r"} THEN 0
    ELSE JsonStringEnd(s, i + 1)

\* The first position >= i of s that holds no digit.
DigitsEnd(s, i) ==
    LET stop == {j \in i..Len(s) : s[j] \notin Digits}
    IN  IF stop = {} THEN (IF i > Len(s) THEN i ELSE Len(s) + 1) ELSE Min(stop)

\* The position after the number starting at i, or 0 when none starts there:
\* -? (0 | [1-9][0-9]*) (. [0-9]+)?
JsonNumberEnd(s, i) ==
    LET d == IF i <= Len(s) /\ s[i] = "-" THEN i + 1 ELSE i
        e == IF d <= Len(s) /\ s[d] = "0" THEN d + 1 ELSE DigitsEnd(s, d)
        f == DigitsEnd(s, e + 1)
    IN  IF e = d THEN 0
        ELSE IF e <= Len(s) /\ s[e] = "."
             THEN (IF f = e + 1 THEN 0 ELSE f)
             ELSE e

RECURSIVE JsonValue(_, _)
RECURSIVE JsonElements(_, _)
RECURSIVE JsonMembers(_, _, _)

JsonGood(s, i, end, kind, members) ==
    [ok |-> TRUE, end |-> end, kind |-> kind, text |-> SubSeq(s, i, end - 1),
     members |-> members]

\* A string whose opening quote is at i and whose closing quote is at q.
JsonString(s, i, q) ==
    IF q = 0 THEN JsonBad
    ELSE [ok |-> TRUE, end |-> q + 1, kind |-> "string",
          text |-> SubSeq(s, i + 1, q - 1), members |-> <<>>]

\* An object or array opened at i, whose parts r were read up to its close.
JsonClosed(s, i, kind, r) ==
    IF r.ok THEN JsonGood(s, i, r.end, kind, r.members) ELSE JsonBad

\* An object opened at i, with j the first position after the "{".
JsonObject(s, i, j) ==
    IF j <= Len(s) /\ s[j] = "}" THEN JsonGood(s, i, j + 1, "object", <<>>)
    ELSE JsonClosed(s, i, "object", JsonMembers(s, j, <<>>))

\* An array opened at i, with j the first position after the "[".
JsonArray(s, i, j) ==
    IF j <= Len(s) /\ s[j] = "]" THEN JsonGood(s, i, j + 1, "array", <<>>)
    ELSE JsonClosed(s, i, "array", JsonElements(s, j))

\* A number starting at i and ending before n.
JsonNumber(s, i, n) ==
    IF n = 0 THEN JsonBad ELSE JsonGood(s, i, n, "number", <<>>)

\* The value starting at position i of s (no leading whitespace); end is the
\* position after it.
JsonValue(s, i) ==
    IF i > Len(s) THEN JsonBad
    ELSE IF s[i] = "\"" THEN JsonString(s, i, JsonStringEnd(s, i + 1))
    ELSE IF s[i] = "{" THEN JsonObject(s, i, SkipSpace(s, i + 1))
    ELSE IF s[i] = "[" THEN JsonArray(s, i, SkipSpace(s, i + 1))
    ELSE IF MatchAt(s, i, LitTrue) \/ MatchAt(s, i, LitNull)
    THEN JsonGood(s, i, i + 4, "literal", <<>>)
    ELSE IF MatchAt(s, i, LitFalse) THEN JsonGood(s, i, i + 5, "literal", <<>>)
    ELSE JsonNumber(s, i, JsonNumberEnd(s, i))

\* After an element v of an array, with j the next position that is not space.
JsonAfterElement(s, v, j) ==
    IF ~v.ok \/ j > Len(s) THEN JsonBad
    ELSE IF s[j] = "]" THEN [JsonBad EXCEPT !.ok = TRUE, !.end = j + 1]
    ELSE IF s[j] = "," THEN JsonElements(s, SkipSpace(s, j + 1))
    ELSE JsonBad

JsonElement(s, v) == JsonAfterElement(s, v, SkipSpace(s, v.end))

\* The elements of an array from position i (a value is due) to its "]".
JsonElements(s, i) == JsonElement(s, JsonValue(s, i))

\* After the member k: v of an object, with j the next position that is not
\* space and got the members read so far.
JsonAfterMember(s, v, j, got) ==
    IF ~v.ok \/ j > Len(s) THEN JsonBad
    ELSE IF s[j] = "}"
         THEN [JsonBad EXCEPT !.ok = TRUE, !.end = j + 1, !.members = got]
    ELSE IF s[j] = "," THEN JsonMembers(s, SkipSpace(s, j + 1), got)
    ELSE JsonBad

JsonMember(s, k, v, acc) ==
    JsonAfterMember(s, v, SkipSpace(s, v.end),
                    Append(acc, [key |-> k.text,
                                 val |-> [kind |-> v.kind, text |-> v.text]]))

\* After the key k of a member, with c the next position that is not space.
JsonAfterKey(s, k, c, acc) ==
    IF ~k.ok \/ k.kind # "string" \/ c > Len(s) THEN JsonBad
    ELSE IF s[c] # ":" THEN JsonBad
    ELSE JsonMember(s, k, JsonValue(s, SkipSpace(s, c + 1)), acc)

JsonKey(s, k, acc) == JsonAfterKey(s, k, SkipSpace(s, k.end), acc)

\* The members of an object from position i (a key is due) to its "}".
JsonMembers(s, i, acc) == JsonKey(s, JsonValue(s, i), acc)

JsonWhole(s, v) == IF v.ok /\ SkipSpace(s, v.end) > Len(s) THEN v ELSE JsonBad

\* json.loads(s): one value, whitespace allowed around it; ok is FALSE where
\* json.loads raises JSONDecodeError.
JsonLoads(s) == JsonWhole(s, JsonValue(s, SkipSpace(s, 1)))

\* re.search(r'\{.*\}', s, re.DOTALL): greedy, from the first "{" to the last
\* "}" of the text; <<>> stands for no match (a match is never empty).
BraceSpanOf(s, a, b) == IF a # 0 /\ b > a THEN SubSeq(s, a, b) ELSE <<>>

BraceSpan(s) == BraceSpanOf(s, Find(s, <<"{">>, 1), FindLast(s, <<"}">>))

\* The except branch of parse_json_response, on the span found.
ParseSpan(span) == IF span = <<>> THEN JsonBad ELSE JsonLoads(span)

\* The try of parse_json_response, on the direct reading of the text.
ParseDirect(direct, stripped) ==
    IF direct.ok THEN direct ELSE ParseSpan(BraceSpan(stripped))

ParseStripped(stripped) == ParseDirect(JsonLoads(stripped), stripped)

\* LLMClient.parse_json_response: ok is FALSE where it raises ValueError.
parse_json_response(response) ==
    ParseStripped(Strip(RemoveWithSpace(RemoveWithSpace(response, FenceJson), Fence)))

\* 'count', 'sum', 'average', 'total', 'how many'
StatWords ==
    {<<"c","o","u","n","t">>,
     <<"s","u","m">>,
     <<"a","v","e","r","a","g","e">>,
     <<"t","o","t","a","l">>,
     <<"h","o","w"," ","m","a","n","y">>}

\* The dict _fallback_query_analysis builds, as the JSON value it is.
FallbackValue(query_type, query) ==
    [ok |-> TRUE, end |-> 0, kind |-> "object", text |-> <<>>,
     members |-> << [key |-> KeyType, val |-> [kind |-> "string", text |-> query_type]],
                    [key |-> KeyIntent, val |-> [kind |-> "string", text |-> query]],
                    [key |-> KeyColumns, val |-> [kind |-> "array", text |-> ValEmptyList]],
                    [key |-> KeyAnalysisType,
                     val |-> [kind |-> "string", text |-> ValDescriptive]],
                    [key |-> KeyConfidence,
                     val |-> [kind |-> "number", text |-> ValHalf]] >>]

\* _fallback_query_analysis without query.lower(): the keywords are matched
\* against the question as typed.
fallback_query_analysis_CaseSensitive(query) ==
    IF \E word \in StatWords : Contains(query, word)
    THEN FallbackValue(ValStatistical, query)
    ELSE FallbackValue(ValGeneral, query)

\* LLMClient._fallback_query_analysis
fallback_query_analysis(query) ==
    LET query_lower == Lower(query)
    IN  IF \E word \in StatWords : Contains(query_lower, word)
        THEN FallbackValue(ValStatistical, query)
        ELSE FallbackValue(ValGeneral, query)

\* analyze_query without its except ValueError clause.
AnalysisOr_NoFallback(query, parsed) == parsed

\* The try/except of LLMClient.analyze_query on what the parser made of the
\* gateway's response.
AnalysisOr(query, parsed) ==
    IF parsed.ok THEN parsed ELSE fallback_query_analysis(query)

AnalysisOf(query, response) == AnalysisOr(query, parse_json_response(response))

\* dict lookup: whether the analysis is a dict holding the key, and its value
\* (the last pair wins, as in a Python dict).
HasKey(v, key) ==
    v.kind = "object" /\ \E i \in 1..Len(v.members) : v.members[i].key = key

GetKey(v, key) ==
    v.members[Max({i \in 1..Len(v.members) : v.members[i].key = key})].val

(***************************************************************************)
(* LLMClient._extract_sql                                                  *)
(***************************************************************************)

\* re.search of [fence]sql\s*(.*?)\s*[fence], DOTALL | IGNORECASE, followed
\* by group(1).strip(): the text between the first [fence]sql that has a
\* closing [fence] and that closing fence.  ok is FALSE when there is no match.
FencedSql(response) ==
    LET up == Upper(response)
        open == {i \in 1..Len(response) :
                    /\ MatchAt(up, i, Upper(FenceSql))
                    /\ Find(response, Fence, i + Len(FenceSql)) # 0}
        a == Min(open)
        b == Find(response, Fence, a + Len(FenceSql))
    IN  IF open = {} THEN [ok |-> FALSE, sql |-> <<>>]
        ELSE [ok |-> TRUE, sql |-> Strip(SubSeq(response, a + Len(FenceSql), b - 1))]

\* re.search(r'(SELECT\s+.*?(?:;|$))', response, DOTALL | IGNORECASE) followed
\* by group(1).strip(): from the first SELECT that whitespace follows, to the
\* first ";" after it (included) or the end of the text.
SelectSpan(response) ==
    LET up == Upper(response)
        starts == {i \in 1..Len(response) :
                     /\ MatchAt(up, i, KwSelect)
                     /\ i + Len(KwSelect) <= Len(response)
                     /\ IsSpace(response[i + Len(KwSelect)])}
        a == Min(starts)
        semi == Find(response, <<";">>, SkipSpace(response, a + Len(KwSelect)))
    IN  IF starts = {} THEN [ok |-> FALSE, sql |-> <<>>]
        ELSE IF semi = 0 THEN [ok |-> TRUE, sql |-> Strip(From(response, a))]
        ELSE [ok |-> TRUE, sql |-> Strip(SubSeq(response, a, semi))]

extract_sql(response) ==
    IF FencedSql(response).ok THEN FencedSql(response).sql
    ELSE IF SelectSpan(response).ok THEN SelectSpan(response).sql
    ELSE Strip(response)

(***************************************************************************)
(* LLMClient.validate_sql                                                  *)
(***************************************************************************)

\* The denylist, in the order the code scans it.
dangerous ==
    << [name |-> "DROP", text |-> <<"D","R","O","P">>],
       [name |-> "DELETE", text |-> <<"D","E","L","E","T","E">>],
       [name |-> "TRUNCATE", text |-> <<"T","R","U","N","C","A","T","E">>],
       [name |-> "ALTER", text |-> <<"A","L","T","E","R">>],
       [name |-> "CREATE", text |-> <<"C","R","E","A","T","E">>],
       [name |-> "INSERT", text |-> <<"I","N","S","E","R","T">>],
       [name |-> "UPDATE", text |-> <<"U","P","D","A","T","E">>] >>

\* The errors of the denylist scan from keyword k on.
RECURSIVE DangerousErrors(_, _)
DangerousErrors(sql_upper, k) ==
    IF k > Len(dangerous) THEN <<>>
    ELSE (IF Contains(sql_upper, dangerous[k].text)
          THEN << <<"Dangerous keyword: ", dangerous[k].name>> >>
          ELSE <<>>)
         \o DangerousErrors(sql_upper, k + 1)

\* validate_sql returning at the first check that fails, with its first error.
validate_sql_ShortCircuit(sql) ==
    LET sql_upper == Strip(Upper(sql))
        start == IF ~(StartsWith(sql_upper, KwSelect) \/ StartsWith(sql_upper, KwWith))
                 THEN << <<"Query must start with SELECT">> >>
                 ELSE <<>>
        denied == DangerousErrors(sql_upper, 1)
        parens == IF Count(sql, "(") # Count(sql, ")")
                  THEN << <<"Unbalanced parentheses">> >>
                  ELSE <<>>
        errors == IF start # <<>> THEN start
                  ELSE IF denied # <<>> THEN <<denied[1]>>
                  ELSE parens
    IN  [valid |-> Len(errors) = 0, errors |-> errors]

\* Each error is the sequence of the fragments of its message.
validate_sql(sql) ==
    LET sql_upper == Strip(Upper(sql))
        start == IF ~(StartsWith(sql_upper, KwSelect) \/ StartsWith(sql_upper, KwWith))
                 THEN << <<"Query must start with SELECT">> >>
                 ELSE <<>>
        parens == IF Count(sql, "(") # Count(sql, ")")
                  THEN << <<"Unbalanced parentheses">> >>
                  ELSE <<>>
        errors == start \o DangerousErrors(sql_upper, 1) \o parens
    IN  [valid |-> Len(errors) = 0, errors |-> errors]

(***************************************************************************)
(* The tabular store behind sqlite3.connect(db_path): one table t, whose   *)
(* rows are identified by their primary keys.  SqlRun is what              *)
(* cursor.execute(sql) followed by fetchall() does to a statement, read    *)
(* token by token; conn.close() without commit() follows it.               *)
(***************************************************************************)

InitialStore == [tables |-> {TableT}, rows |-> {1}]

WordChars ==
    {LowerLetters[i] : i \in 1..26} \cup {UpperLetters[i] : i \in 1..26}
        \cup Digits \cup {"_"}

\* The length of the run of word characters s starts with.
WordLen(s) ==
    LET stop == {j \in 1..Len(s) : s[j] \notin WordChars}
    IN  IF stop = {} THEN Len(s) ELSE Min(stop) - 1

\* The tokens of a statement: words, and every other character on its own.
RECURSIVE Tokens(_)
Tokens(s) ==
    IF Len(s) = 0 THEN <<>>
    ELSE IF IsSpace(s[1]) THEN Tokens(Tail(s))
    ELSE IF s[1] \in WordChars
         THEN <<SubSeq(s, 1, WordLen(s))>> \o Tokens(From(s, WordLen(s) + 1))
    ELSE << <<s[1]>> >> \o Tokens(Tail(s))

\* The position of the first token equal to w, 0 when there is none.
TokenAt(toks, w) ==
    LET hits == {i \in 1..Len(toks) : toks[i] = w}
    IN  IF hits = {} THEN 0 ELSE Min(hits)

\* The position of the ")" closing the "(" at position i, 0 when there is none.
RECURSIVE CloseOf(_, _, _)
CloseOf(toks, i, depth) ==
    IF i > Len(toks) THEN 0
    ELSE IF toks[i] = <<"(">> THEN CloseOf(toks, i + 1, depth + 1)
    ELSE IF toks[i] = <<")">>
         THEN (IF depth = 1 THEN i ELSE CloseOf(toks, i + 1, depth - 1))
    ELSE CloseOf(toks, i + 1, depth)

\* A rows set as the list fetchall() returns, in key order.
RECURSIVE RowList(_)
RowList(rows) ==
    IF rows = {} THEN <<>> ELSE <<Min(rows)>> \o RowList(rows \ {Min(rows)})

SqlFail(store, diag) == [ok |-> FALSE, rows |-> <<>>, store |-> store, diag |-> diag]

SqlDone(store, rows) == [ok |-> TRUE, rows |-> rows, store |-> store, diag |-> ""]

\* The sqlite3 module opens a transaction only before a statement whose first
\* word is INSERT, UPDATE, DELETE or REPLACE; execute_sql never commits, so the
\* effect of such a statement is rolled back by conn.close().  Any other
\* statement runs in autocommit mode and its effect stays.
RolledBack(toks) == toks[1] \in {KwInsert, KwUpdate, KwDelete, KwReplace}

\* The main statement (after a WITH name AS (...) prefix) on the store.
SqlMain(toks, body, cte, store) ==
    LET from == TokenAt(body, KwFrom)
        into == TokenAt(body, KwInto)
        known == store.tables \cup cte
        keep(after) == IF RolledBack(toks) THEN store ELSE after
    IN  IF Len(body) = 0 THEN SqlFail(store, "incomplete input")
        ELSE IF body[1] = KwSelect
        THEN IF from = 0 THEN SqlDone(store, <<1>>)
             ELSE IF from = Len(body) THEN SqlFail(store, "incomplete input")
             ELSE IF body[from + 1] \notin known THEN SqlFail(store, "no such table")
             ELSE IF body[from + 1] \in cte THEN SqlDone(store, <<1>>)
             ELSE SqlDone(store, RowList(store.rows))
        ELSE IF body[1] \in {KwReplace, KwInsert}
        THEN IF into = 0 \/ into = Len(body) THEN SqlFail(store, "syntax error")
             ELSE IF body[into + 1] \notin store.tables
                  THEN SqlFail(store, "no such table")
             ELSE SqlDone(keep([store EXCEPT !.rows = @ \cup {2}]), <<>>)
        ELSE IF body[1] = KwDelete
        THEN IF from = 0 \/ from = Len(body) THEN SqlFail(store, "syntax error")
             ELSE IF body[from + 1] \notin store.tables
                  THEN SqlFail(store, "no such table")
             ELSE SqlDone(keep([store EXCEPT !.rows = {}]), <<>>)
        ELSE IF body[1] = KwUpdate
        THEN IF Len(body) = 1 THEN SqlFail(store, "incomplete input")
             ELSE IF body[2] \notin store.tables THEN SqlFail(store, "no such table")
             ELSE SqlDone(keep([store EXCEPT !.rows = {0}]), <<>>)
        ELSE IF body[1] = KwDrop
        THEN IF Len(body) < 3 \/ body[2] # KwTable
             THEN SqlFail(store, "syntax error")
             ELSE IF body[3] \notin store.tables THEN SqlFail(store, "no such table")
             ELSE SqlDone([tables |-> store.tables \ {body[3]}, rows |-> {}], <<>>)
        ELSE SqlFail(store, "syntax error")

\* cursor.execute(sql); cursor.fetchall() on the store.  The statement ends at
\* its first ";"; text after it is refused by the sqlite3 module.
SqlRun(sql, store) ==
    LET all == Tokens(Upper(sql))
        semi == TokenAt(all, <<";">>)
        toks == IF semi = 0 THEN all ELSE SubSeq(all, 1, semi - 1)
        open == TokenAt(toks, <<"(">>)
        close == CloseOf(toks, open, 0)
        cte == toks[1] = KwWith
    IN  IF TokenAt(all, <<BQ>>) # 0 THEN SqlFail(store, "unrecognized token")
        ELSE IF Len(toks) = 0 /\ semi = 0 THEN SqlDone(store, <<>>)
        ELSE IF Len(toks) = 0 THEN SqlFail(store, "syntax error")
        ELSE IF Count(Join(toks, " "), "(") # Count(Join(toks, " "), ")")
             THEN SqlFail(store, "incomplete input")
        ELSE IF semi # 0 /\ semi < Len(all)
             THEN SqlFail(store, "You can only execute one statement at a time.")
        ELSE IF cte /\ (Len(toks) < 4 \/ open # 4 \/ close = 0)
             THEN SqlFail(store, "syntax error")
        ELSE IF cte
             THEN SqlMain(toks, SubSeq(toks, close + 1, Len(toks)), {toks[2]}, store)
        ELSE SqlMain(toks, toks, {}, store)

(***************************************************************************)
(* Bounds and input sets of the model.                                     *)
(***************************************************************************)

\* Calls of analytics_query in one behaviour, one after the other.
MaxRuns == 2

Questions == {Q_HowMany, Q_Total, Q_Show, Q_Summary}

\* The texts the completion backend may answer with, at any stage.
Completions ==
    {R_Json, R_FencedJson, R_ProseJson, R_TwoObjects, R_Prose, R_FencedSelect,
     R_FencedCteReplace, R_Delete, R_UpdateOpen, R_SelectMissing, R_ProseSelect,
     R_BareFence}

\* What one requests.post of generate_response can meet: an answer, an HTTP
\* error status, a timeout, or a 200 body without choices[0].message.content.
BackendReplies ==
    {[fault |-> "none", status |-> 200, text |-> t] : t \in Completions}
        \cup {[fault |-> "http", status |-> s, text |-> <<>>] : s \in {401, 429, 500}}
        \cup {[fault |-> "timeout", status |-> 0, text |-> <<>>],
              [fault |-> "body", status |-> 200, text |-> <<>>]}

\* The template files setup_prompts.py creates, as <<category, prompt_type>>.
AllPromptFiles ==
    {<<"system", "system_prompt">>, <<"system", "query_analysis">>,
     <<"system", "sql_generation">>, <<"system", "insights_generation">>,
     <<"user", "query_analysis">>, <<"user", "sql_generation">>,
     <<"user", "insights_generation">>}

\* The states of the prompts directory the model starts from: complete, one
\* user template missing, only the generic system prompt, and empty.
PromptLayouts ==
    {AllPromptFiles, AllPromptFiles \ {<<"user", "sql_generation">>},
     {<<"system", "system_prompt">>}, {}}

(***************************************************************************)
(* State.                                                                  *)
(***************************************************************************)

VARIABLES
    api_key,        \* whether GROQ_API_KEY is set in the environment
    prompt_files,   \* the template files present under prompts/
    store,          \* the database file
    runs,           \* calls of analytics_query so far
    pc,             \* where the current call stands
    user_query,     \* the question of the current call
    prompts_cache,  \* LLMClient.prompts_cache of the current service
    analysis,       \* locals of analyze_query_full
    sql_result,
    validation,
    data,
    result,         \* the dict analyze_query_full returns
    raised,         \* the exception that left analytics_query, if any
    calls,          \* stages invoked in the current call, in order
    completed,      \* how many of them returned without raising
    replies,        \* what the backend answered to each gateway call
    gateway_calls,  \* requests.post calls of the current call
    gate,           \* validate_sql calls: statement and verdict
    executed,       \* statements handed to cursor.execute
    backend_error,  \* the message of the exception cursor.execute raised
    connections,    \* connections execute_sql opened and has not closed
    store_at_call,  \* the database file as it was when the current call began
    storage_reads   \* how often each template file was read since the process began

vars ==
    <<api_key, prompt_files, store, runs, pc, user_query, prompts_cache, analysis,
      sql_result, validation, data, result, raised, calls, completed, replies,
      gateway_calls, gate, executed, backend_error, connections, store_at_call,
      storage_reads>>

\* Python's None for a local not yet bound, or a key a dict does not hold.
NoSql == [sql |-> <<>>, explanation |-> <<>>]

NoValidation == [valid |-> FALSE, errors |-> <<>>]

NoResult ==
    [keys |-> {}, success |-> FALSE, error |-> <<>>, analysis |-> JsonBad,
     sql |-> <<>>, sql_explanation |-> <<>>, data |-> <<>>, data_count |-> 0,
     insights |-> <<>>, user_query |-> <<>>]

(***************************************************************************)
(* LLMClient: templates and the gateway.                                   *)
(***************************************************************************)

\* LLMClient.load_prompt: the cache after the call and the files it read,
\* added to those read before it in the same resolution; ok is FALSE where it
\* raises FileNotFoundError.
load_prompt(cache, files, prompt_type, category, reads) ==
    IF <<category, prompt_type>> \in cache
    THEN [ok |-> TRUE, cache |-> cache, error |-> <<>>, reads |-> reads]
    ELSE IF <<category, prompt_type>> \notin files
    THEN [ok |-> FALSE, cache |-> cache, reads |-> reads,
          error |-> <<"Prompt file not found: ", category, prompt_type>>]
    ELSE [ok |-> TRUE, cache |-> cache \cup {<<category, prompt_type>>},
          error |-> <<>>, reads |-> reads \cup {<<category, prompt_type>>}]

\* LLMClient.load_prompt_with_auto_split: the system and user templates of
\* the stage, else the generic system prompt.
load_prompt_with_auto_split(cache, files, prompt_type) ==
    LET sys == load_prompt(cache, files, prompt_type, "system", {})
        usr == load_prompt(sys.cache, files, prompt_type, "user", sys.reads)
        generic(from) ==
            load_prompt(from.cache, files, "system_prompt", "system", from.reads)
    IN  IF sys.ok /\ usr.ok THEN usr
        ELSE IF sys.ok THEN generic(usr)
        ELSE generic(sys)

\* str(e) of the requests exception for an HTTP error status.
StatusText(status) ==
    IF status = 401 THEN "401 Client Error: Unauthorized"
    ELSE IF status = 429 THEN "429 Client Error: Too Many Requests"
    ELSE "500 Server Error: Internal Server Error"

\* generate_response with the message of the 401 branch pasted into the 429
\* branch.
generate_response_SameMessage(reply) ==
    IF reply.fault = "none"
    THEN [ok |-> TRUE, text |-> Strip(reply.text), error |-> <<>>]
    ELSE IF reply.fault = "http"
    THEN IF reply.status = 401 \/ reply.status = 429
         THEN [ok |-> FALSE, text |-> <<>>,
               error |-> <<"Invalid Groq API key! Check your GROQ_API_KEY">>]
         ELSE [ok |-> FALSE, text |-> <<>>,
               error |-> <<"Groq API error: ", StatusText(reply.status)>>]
    ELSE IF reply.fault = "timeout"
    THEN [ok |-> FALSE, text |-> <<>>,
          error |-> <<"Groq API call failed: ", "Read timed out.">>]
    ELSE [ok |-> FALSE, text |-> <<>>,
          error |-> <<"Groq API call failed: ", "'choices'">>]

\* LLMClient.generate_response on the reply of the backend: the stripped
\* text, or the message of the Exception it raises.
generate_response(reply) ==
    IF reply.fault = "none"
    THEN [ok |-> TRUE, text |-> Strip(reply.text), error |-> <<>>]
    ELSE IF reply.fault = "http"
    THEN IF reply.status = 401
         THEN [ok |-> FALSE, text |-> <<>>,
               error |-> <<"Invalid Groq API key! Check your GROQ_API_KEY">>]
         ELSE IF reply.status = 429
         THEN [ok |-> FALSE, text |-> <<>>,
               error |-> <<"Groq rate limit reached. Wait a minute and try again.">>]
         ELSE [ok |-> FALSE, text |-> <<>>,
               error |-> <<"Groq API error: ", StatusText(reply.status)>>]
    ELSE IF reply.fault = "timeout"
    THEN [ok |-> FALSE, text |-> <<>>,
          error |-> <<"Groq API call failed: ", "Read timed out.">>]
    ELSE [ok |-> FALSE, text |-> <<>>,
          error |-> <<"Groq API call failed: ", "'choices'">>]

\* A stage that calls the gateway: templates, then one request.  Gives the
\* cache after the stage, whether the request was sent, and the text or the
\* message of the exception that leaves the stage.
GatewayStage(prompt_type, reply) ==
    LET prompts == load_prompt_with_auto_split(prompts_cache, prompt_files, prompt_type)
        response == generate_response(reply)
    IN  IF ~prompts.ok
        THEN [ok |-> FALSE, sent |-> FALSE, cache |-> prompts.cache,
              reads |-> prompts.reads, text |-> <<>>, error |-> prompts.error]
        ELSE [ok |-> response.ok, sent |-> TRUE, cache |-> prompts.cache,
              reads |-> prompts.reads, text |-> response.text,
              error |-> response.error]

\* What leaves analyze_query once the gateway answered: the analysis, or the
\* ValueError of the parser where nothing catches it.
AnalyzeReturn(g, v) ==
    [ok |-> v.ok, sent |-> g.sent, cache |-> g.cache, reads |-> g.reads,
     text |-> g.text,
     error |-> IF v.ok THEN <<>> ELSE <<"Failed to parse JSON from response">>,
     value |-> v]

AnalyzeOn(query, g) ==
    IF ~g.ok THEN g @@ [value |-> JsonBad]
    ELSE AnalyzeReturn(g, AnalysisOf(query, g.text))

\* LLMClient.analyze_query: the analysis it returns, or the exception.
analyze_query(query, reply) ==
    AnalyzeOn(query, GatewayStage("query_analysis", reply))

SynthesizeOn(g) ==
    IF ~g.ok THEN g @@ [value |-> NoSql]
    ELSE g @@ [value |-> [sql |-> extract_sql(g.text), explanation |-> g.text]]

\* LLMClient.generate_sql
generate_sql(reply) == SynthesizeOn(GatewayStage("sql_generation", reply))

\* LLMClient.generate_insights
generate_insights(reply) == GatewayStage("insights_generation", reply)

(***************************************************************************)
(* AnalyticsService                                                        *)
(***************************************************************************)

\* AnalyticsService.execute_sql: rows, or the message of the Exception it
\* raises; the connection is closed without a commit either way.
\* execute_sql raising a fixed message, without str(e).
ExecuteOn_NoDiagnostic(r) ==
    IF r.ok
    THEN [ok |-> TRUE, rows |-> r.rows, store |-> r.store, diag |-> "", error |-> <<>>]
    ELSE [ok |-> FALSE, rows |-> <<>>, store |-> r.store, diag |-> r.diag,
          error |-> <<"SQL execution error">>]

\* AnalyticsService.execute_sql on what the store did with the statement.
ExecuteOn(r) ==
    IF r.ok
    THEN [ok |-> TRUE, rows |-> r.rows, store |-> r.store, diag |-> "", error |-> <<>>]
    ELSE [ok |-> FALSE, rows |-> <<>>, store |-> r.store, diag |-> r.diag,
          error |-> <<"SQL execution error: ", r.diag>>]

execute_sql(sql, db) == ExecuteOn(SqlRun(sql, db))

\* sqlite3.connect(self.db_path): one more open connection.
sqlite3_connect(n) == n + 1

\* conn.close() placed before the return, with no finally clause: an
\* execution that raises leaves the connection open.
conn_close_OnReturnOnly(r, n) == IF r.ok THEN n - 1 ELSE n

\* finally: conn.close(), on the return and on the raise of execute_sql.
conn_close(r, n) == n - 1

\* The order of the steps of analyze_query_full.
StageOrder == <<"analyze", "synthesize", "validate", "execute", "summarize">>

\* analyze_query_full without its STEP 3: the statement goes from the
\* synthesizer to the executor.
StageAfter_SkipGate(stage) ==
    CASE stage = "analyze" -> "synthesize"
      [] stage = "synthesize" -> "execute"
      [] stage = "validate" -> "execute"
      [] stage = "execute" -> "summarize"
      [] OTHER -> "returned"

\* The step that follows a step that returned.
StageAfter(stage) ==
    CASE stage = "analyze" -> "synthesize"
      [] stage = "synthesize" -> "validate"
      [] stage = "validate" -> "execute"
      [] stage = "execute" -> "summarize"
      [] OTHER -> "returned"

\* analyze_query_full ignoring the verdict of the gate.
gate_never_closed(v) == FALSE

\* if not validation['valid']: return ...
gate_closed(v) == ~v.valid

\* The message built from the first error alone.
ValidationMessage_FirstOnly(v) == <<"SQL validation failed: ">> \o v.errors[1]

\* The message of the outcome of a rejected statement.
ValidationMessage(v) == <<"SQL validation failed: ">> \o Join(v.errors, ", ")

\* The dict returned for a rejected statement.
RejectedOutcome(v) ==
    [NoResult EXCEPT !.keys = {"success", "error", "analysis", "sql"},
                     !.success = FALSE,
                     !.error = ValidationMessage(v),
                     !.analysis = analysis,
                     !.sql = sql_result.sql]

\* The except clause attaching what the earlier steps produced.
ExceptionOutcome_WithPartial(error) ==
    [NoResult EXCEPT !.keys = {"success", "error", "user_query", "analysis", "sql"},
                     !.success = FALSE,
                     !.error = error,
                     !.user_query = user_query,
                     !.analysis = analysis,
                     !.sql = sql_result.sql]

\* The dict the except clause of analyze_query_full returns.
ExceptionOutcome(error) ==
    [NoResult EXCEPT !.keys = {"success", "error", "user_query"},
                     !.success = FALSE,
                     !.error = error,
                     !.user_query = user_query]

\* The success dict built without its "data" entry: the count of the rows, but
\* not the rows.
SuccessOutcome_NoRows(insights) ==
    [NoResult EXCEPT !.keys = {"success", "analysis", "sql", "sql_explanation",
                               "data_count", "insights"},
                     !.success = TRUE,
                     !.analysis = analysis,
                     !.sql = sql_result.sql,
                     !.sql_explanation = sql_result.explanation,
                     !.data_count = Len(data),
                     !.insights = insights]

\* The dict returned when all five steps returned.
SuccessOutcome(insights) ==
    [NoResult EXCEPT !.keys = {"success", "analysis", "sql", "sql_explanation", "data",
                               "data_count", "insights"},
                     !.success = TRUE,
                     !.analysis = analysis,
                     !.sql = sql_result.sql,
                     !.sql_explanation = sql_result.explanation,
                     !.data = data,
                     !.data_count = Len(data),
                     !.insights = insights]

Init ==
    /\ api_key \in BOOLEAN
    /\ prompt_files \in PromptLayouts
    /\ store = InitialStore
    /\ runs = 0
    /\ pc = "idle"
    /\ user_query = <<>>
    /\ prompts_cache = {}
    /\ analysis = JsonBad
    /\ sql_result = NoSql
    /\ validation = NoValidation
    /\ data = <<>>
    /\ result = NoResult
    /\ raised = <<>>
    /\ calls = <<>>
    /\ completed = 0
    /\ replies = <<>>
    /\ gateway_calls = 0
    /\ gate = <<>>
    /\ executed = <<>>
    /\ backend_error = ""
    /\ connections = 0
    /\ store_at_call = InitialStore
    /\ storage_reads = [file \in AllPromptFiles |-> 0]

\* analytics_query(user_query) up to the call of analyze_query_full: a new
\* AnalyticsService, whose LLMClient (with an empty prompts_cache) raises
\* ValueError without an API key.  _load_table_structure and
\* _load_business_logic only read, and catch what they raise; format_response
\* renders the result of the call and changes nothing.
Call ==
    /\ pc \in {"idle", "returned", "raised"}
    /\ runs < MaxRuns
    /\ runs' = runs + 1
    /\ \E q \in Questions : user_query' = q
    /\ prompts_cache' = {}
    /\ analysis' = JsonBad
    /\ sql_result' = NoSql
    /\ validation' = NoValidation
    /\ data' = <<>>
    /\ result' = NoResult
    /\ calls' = <<>>
    /\ completed' = 0
    /\ replies' = <<>>
    /\ gateway_calls' = 0
    /\ gate' = <<>>
    /\ executed' = <<>>
    /\ backend_error' = ""
    /\ IF api_key
       THEN pc' = "analyze" /\ raised' = <<>>
       ELSE pc' = "raised" /\ raised' = <<"ValueError", "GROQ_API_KEY not found!">>
    /\ store_at_call' = store
    /\ UNCHANGED <<api_key, prompt_files, store, connections, storage_reads>>

\* The bookkeeping of a step that called, or tried to call, the gateway.
Asked(stage, g, reply) ==
    /\ calls' = Append(calls, stage)
    /\ prompts_cache' = g.cache
    /\ replies' = IF g.sent THEN Append(replies, reply) ELSE replies
    /\ gateway_calls' = IF g.sent THEN gateway_calls + 1 ELSE gateway_calls
    /\ storage_reads' = [file \in AllPromptFiles |->
                            IF file \in g.reads THEN storage_reads[file] + 1
                            ELSE storage_reads[file]]

\* A step raised: the except clause builds the outcome and the call returns.
Raise(error) ==
    /\ result' = ExceptionOutcome(error)
    /\ pc' = "returned"
    /\ completed' = completed

Analyzed(a, reply) ==
    /\ Asked("analyze", a, reply)
    /\ IF a.ok
       THEN /\ analysis' = a.value
            /\ pc' = StageAfter("analyze")
            /\ completed' = completed + 1
            /\ result' = result
       ELSE /\ analysis' = analysis
            /\ Raise(a.error)

\* STEP 1 of analyze_query_full.
Analyze ==
    /\ pc = "analyze"
    /\ \E reply \in BackendReplies : Analyzed(analyze_query(user_query, reply), reply)
    /\ UNCHANGED <<api_key, prompt_files, store, runs, user_query, sql_result,
                   validation, data, raised, gate, executed, backend_error,
                   connections, store_at_call>>

Synthesized(s, reply) ==
    /\ Asked("synthesize", s, reply)
    /\ IF s.ok
       THEN /\ sql_result' = s.value
            /\ pc' = StageAfter("synthesize")
            /\ completed' = completed + 1
            /\ result' = result
       ELSE /\ sql_result' = sql_result
            /\ Raise(s.error)

\* STEP 2 of analyze_query_full.
Synthesize ==
    /\ pc = "synthesize"
    /\ \E reply \in BackendReplies : Synthesized(generate_sql(reply), reply)
    /\ UNCHANGED <<api_key, prompt_files, store, runs, user_query, analysis,
                   validation, data, raised, gate, executed, backend_error,
                   connections, store_at_call>>

Validated(v) ==
    /\ validation' = v
    /\ gate' = Append(gate, [sql |-> sql_result.sql, valid |-> v.valid])
    /\ IF gate_closed(v)
       THEN /\ result' = RejectedOutcome(v)
            /\ pc' = "returned"
       ELSE /\ result' = result
            /\ pc' = StageAfter("validate")

\* STEP 3 of analyze_query_full.
Validate ==
    /\ pc = "validate"
    /\ Validated(validate_sql(sql_result.sql))
    /\ calls' = Append(calls, "validate")
    /\ completed' = completed + 1
    /\ UNCHANGED <<api_key, prompt_files, store, runs, user_query, prompts_cache,
                   analysis, sql_result, data, raised, replies, gateway_calls,
                   executed, backend_error, connections, store_at_call,
                   storage_reads>>

Executed(r) ==
    /\ executed' = Append(executed, sql_result.sql)
    /\ store' = r.store
    /\ backend_error' = r.diag
    /\ connections' = conn_close(r, sqlite3_connect(connections))
    /\ IF r.ok
       THEN /\ data' = r.rows
            /\ pc' = StageAfter("execute")
            /\ completed' = completed + 1
            /\ result' = result
       ELSE /\ data' = data
            /\ Raise(r.error)

\* STEP 4 of analyze_query_full.
Execute ==
    /\ pc = "execute"
    /\ Executed(execute_sql(sql_result.sql, store))
    /\ calls' = Append(calls, "execute")
    /\ UNCHANGED <<api_key, prompt_files, runs, user_query, prompts_cache, analysis,
                   sql_result, validation, raised, replies, gateway_calls, gate,
                   store_at_call, storage_reads>>

Summarized(i, reply) ==
    /\ Asked("summarize", i, reply)
    /\ IF i.ok
       THEN /\ result' = SuccessOutcome(i.text)
            /\ pc' = StageAfter("summarize")
            /\ completed' = completed + 1
       ELSE Raise(i.error)

\* STEP 5 of analyze_query_full, and its return.
Summarize ==
    /\ pc = "summarize"
    /\ \E reply \in BackendReplies : Summarized(generate_insights(reply), reply)
    /\ UNCHANGED <<api_key, prompt_files, store, runs, user_query, analysis,
                   sql_result, validation, data, raised, gate, executed,
                   backend_error, connections, store_at_call>>

Next == Call \/ Analyze \/ Synthesize \/ Validate \/ Execute \/ Summarize

Spec == Init /\ [][Next]_vars

(***************************************************************************)
(* validate_sql called on its own, as any holder of an LLMClient may call  *)
(* it, on statements composed of a few fragments.                          *)
(***************************************************************************)

\* The fragments: the two accepted openings, parentheses, a name, the denied
\* words in several spellings (one inside an identifier, one in two halves),
\* and a line break.
StatementPieces ==
    {<<"s","e","l","e","c","t"," ">>,
     <<"W","I","T","H"," ">>,
     <<"(">>,
     <<")">>,
     <<" ","t">>,
     <<"d","r","o","p">>,
     <<"D","e","l","e","t","e">>,
     <<"T","R","U","N","C","A","T","E">>,
     <<"a","l","t","e","r">>,
     <<"c","r","e","a","t","e","d","_","a","t">>,
     <<"i","n","s","e","r","t">>,
     <<"U","P">>,
     <<"D","A","T","E"," ">>,
     <<"\n">>}

\* Fragments per statement.
MaxPieces == 2

\* validate_sql calls on one statement.
MaxValidations == 2

\* The concatenations of at most n fragments.
RECURSIVE Compose(_)
Compose(n) ==
    IF n = 0 THEN {<<>>}
    ELSE Compose(n - 1) \cup {s \o p : s \in Compose(n - 1), p \in StatementPieces}

Statements == Compose(MaxPieces)

\* A client holding a statement, before any call of validate_sql.
GateInit ==
    /\ api_key = TRUE
    /\ prompt_files = AllPromptFiles
    /\ store = InitialStore
    /\ runs = 0
    /\ pc = "idle"
    /\ user_query = <<>>
    /\ prompts_cache = {}
    /\ analysis = JsonBad
    /\ \E s \in Statements : sql_result = [sql |-> s, explanation |-> s]
    /\ validation = NoValidation
    /\ data = <<>>
    /\ result = NoResult
    /\ raised = <<>>
    /\ calls = <<>>
    /\ completed = 0
    /\ replies = <<>>
    /\ gateway_calls = 0
    /\ gate = <<>>
    /\ executed = <<>>
    /\ backend_error = ""
    /\ connections = 0
    /\ store_at_call = InitialStore
    /\ storage_reads = [file \in AllPromptFiles |-> 0]

\* The bookkeeping of a call of validate_sql that returned v.
ValidateReturned(v) ==
    /\ validation' = v
    /\ gate' = Append(gate, [sql |-> sql_result.sql, valid |-> v.valid])

\* llm_client.validate_sql(sql), once more on the same statement.
ValidateCall ==
    /\ Len(gate) < MaxValidations
    /\ ValidateReturned(validate_sql(sql_result.sql))
    /\ UNCHANGED <<api_key, prompt_files, store, runs, pc, user_query, prompts_cache,
                   analysis, sql_result, data, result, raised, calls, completed,
                   replies, gateway_calls, executed, backend_error, connections,
                   store_at_call, storage_reads>>

GateNext == ValidateCall

GateSpec == GateInit /\ [][GateNext]_vars

(***************************************************************************)
(* Calls of analytics_query running at the same time (the Flask routes of  *)
(* app.py serve each request with its own call).  Every call builds its    *)
(* own AnalyticsService and LLMClient, so the only things two calls share  *)
(* are the database file, the template files and the environment.  The     *)
(* variables hold one of the calls; of any other call only STEP 4 touches  *)
(* what they share.                                                        *)
(***************************************************************************)

\* The statements another call can bring to its STEP 4: those its synthesizer
\* extracts from a completion and its gate accepts.
PeerStatements ==
    {sql \in {extract_sql(Strip(text)) : text \in Completions} :
        validate_sql(sql).valid}

\* The other call got through its STEP 1 and STEP 2: their templates resolve
\* (from the same files, into a cache of its own).
PeerReady ==
    \A stage \in {"query_analysis", "sql_generation"} :
        load_prompt_with_auto_split({}, prompt_files, stage).ok

\* STEP 4 of another call, while this call is under way: its execute_sql runs
\* its statement on the same database file, opening and closing a connection
\* of its own.
PeerExecute ==
    /\ pc \in {"analyze", "synthesize", "validate", "execute", "summarize"}
    /\ PeerReady
    /\ \E sql \in PeerStatements : store' = execute_sql(sql, store).store
    /\ UNCHANGED <<api_key, prompt_files, runs, pc, user_query, prompts_cache,
                   analysis, sql_result, validation, data, result, raised, calls,
                   completed, replies, gateway_calls, gate, executed,
                   backend_error, connections, store_at_call, storage_reads>>

ConcNext ==
    Call \/ Analyze \/ Synthesize \/ Validate \/ Execute \/ Summarize \/ PeerExecute

ConcSpec == Init /\ [][ConcNext]_vars

(***************************************************************************)
(* Properties.                                                             *)
(***************************************************************************)

\* The run has returned an outcome with success = False.
Failed == pc = "returned" /\ ~result.success

\* The answer of the backend to the k-th gateway call of the run was a text.
Answered(k) == Len(replies) >= k /\ replies[k].fault = "none"

\* The last gateway call of the run failed, which ended the run.
GatewayFailed == Len(replies) >= 1 /\ replies[Len(replies)].fault # "none"

\* C1: the executor is invoked only after validate_sql returned valid = true
\* for exactly the statement executed; when validation returns valid = false,
\* execution is not attempted and the outcome carries no rows.
C1_ExecuteOnlyValidated ==
    /\ \A i \in 1..Len(executed) :
          /\ Len(gate) = 1
          /\ gate[1].valid
          /\ gate[1].sql = executed[i]
    /\ \A k \in 1..Len(gate) :
          ~gate[k].valid =>
              /\ executed = <<>>
              /\ Failed
              /\ "data" \notin result.keys
              /\ result.data = <<>>

\* A validated statement has been executed.
C1_Witness == Len(executed) = 1 /\ Len(gate) = 1 /\ gate[1].valid

\* C2: whatever fails, construction of the service and its gateway included,
\* the entry point returns an outcome with a success flag, and an error message
\* when success is false; no exception leaves it.
C2_AlwaysAnOutcome ==
    /\ pc # "raised"
    /\ pc = "returned" =>
          /\ "success" \in result.keys
          /\ ~result.success => ("error" \in result.keys /\ result.error # <<>>)

\* C3: after any sequence of runs, whatever the backend returned, contents and
\* schema of the store are what they were.
C3_StoreUnchanged == store = InitialStore

\* C4: when validation fails the run ends with success = false, an error that
\* lists every error the gate returned, and the analysis and the rejected
\* statement in the outcome.
C4_RejectedOutcome ==
    (Len(gate) = 1 /\ ~gate[1].valid) =>
        /\ Failed
        /\ validation.errors # <<>>
        /\ \A i \in 1..Len(validation.errors) :
              Contains(result.error, validation.errors[i])
        /\ {"error", "analysis", "sql"} \subseteq result.keys
        /\ result.analysis = analysis
        /\ analysis.ok
        /\ result.sql = gate[1].sql

\* A statement has been rejected for three reasons at once.
C4_Witness ==
    /\ Len(gate) = 1
    /\ ~gate[1].valid
    /\ Len(validation.errors) = 3
    /\ pc = "returned"

\* C5 as claimed: no run ends in Failed in its Analyzing stage.
C5_AnalyzeNeverFails == ~(Failed /\ calls = <<"analyze">>)

\* C5, amended: once the gateway has answered the analysis request with a
\* text, whatever the parser makes of it, the run goes on to Synthesizing; it
\* ends in Failed in Analyzing only when the gateway call or the template
\* lookup failed.
C5_AnalyzeFailsOnlyOnFault ==
    /\ Answered(1) => (calls # <<"analyze">> \/ pc = "synthesize")
    /\ (Failed /\ calls = <<"analyze">>) => (replies = <<>> \/ GatewayFailed)

\* The analyzer went on to Synthesizing on a text the parser could not read.
C5_Witness ==
    /\ pc = "synthesize"
    /\ calls = <<"analyze">>
    /\ Answered(1)
    /\ replies[1].text = R_Prose

\* C6: the stages invoked in a run are a prefix of analyze, synthesize,
\* validate, execute, summarize; a stage is invoked only when every stage
\* before it returned; none is invoked twice; the gateway is called at most
\* three times.
C6_StageOrder ==
    /\ Len(calls) <= Len(StageOrder)
    /\ calls = SubSeq(StageOrder, 1, Len(calls))
    /\ completed <= Len(calls)
    /\ Len(calls) <= completed + 1
    /\ \A i, j \in 1..Len(calls) : calls[i] = calls[j] => i = j
    /\ gateway_calls <= 3
    /\ gateway_calls = Len(replies)
    /\ Len(executed) <= 1
    /\ Len(gate) <= 1

\* A run in which all five stages were invoked and the gateway called thrice.
C6_Witness == calls = StageOrder /\ gateway_calls = 3 /\ pc = "returned"

\* The failure kind of a failed gateway call, as the specification names it.
FaultKind(reply) ==
    IF reply.fault = "http" /\ reply.status = 401 THEN "AuthError"
    ELSE IF reply.fault = "http" /\ reply.status = 429 THEN "RateLimited"
    ELSE "TransportError"

\* C7: a gateway call that fails, in any stage, ends the run in Failed with an
\* error from which the kind of the failure can be told: no failure of another
\* kind gives the caller the same error.
C7_GatewayFailureKind ==
    GatewayFailed =>
        /\ Failed
        /\ "error" \in result.keys
        /\ result.error # <<>>
        /\ \A r \in BackendReplies :
              (r.fault # "none" /\ generate_response(r).error = result.error)
                  => FaultKind(r) = FaultKind(replies[Len(replies)])

\* A run that ended on a rate-limited call of the synthesizer.
C7_Witness ==
    /\ GatewayFailed
    /\ pc = "returned"
    /\ calls = <<"analyze", "synthesize">>
    /\ FaultKind(replies[2]) = "RateLimited"

\* C8: when the gateway fails during insight generation, the run ends in
\* Failed with the gateway's error, and the outcome holds neither the
\* analysis, nor the statement, nor the explanation, nor the rows.
C8_LateFailureDropsArtifacts ==
    (calls = StageOrder /\ GatewayFailed) =>
        /\ Failed
        /\ Len(replies) = 3
        /\ result.error = generate_response(replies[3]).error
        /\ result.keys = {"success", "error", "user_query"}
        /\ result.keys \cap {"analysis", "sql", "sql_explanation", "data"} = {}
        /\ ~result.analysis.ok
        /\ result.sql = <<>>
        /\ result.sql_explanation = <<>>
        /\ result.data = <<>>

\* Insight generation failed after the executor had returned rows.
C8_Witness ==
    /\ calls = StageOrder
    /\ GatewayFailed
    /\ pc = "returned"
    /\ data # <<>>
    /\ analysis.ok

\* C9: when the executor fails on a validated statement, the run ends in
\* Failed, the insight generator is not invoked, and the error of the outcome
\* is the executor's, carrying the message of the store.
C9_ExecutionFailure ==
    backend_error # "" =>
        /\ Failed
        /\ calls = <<"analyze", "synthesize", "validate", "execute">>
        /\ gateway_calls = 2
        /\ Len(gate) = 1 /\ gate[1].valid /\ executed = <<gate[1].sql>>
        /\ result.error = <<"SQL execution error: ", backend_error>>

\* The executor failed on a statement naming a table the store does not have.
C9_Witness == backend_error = "no such table" /\ pc = "returned"

\* The question holds one of the statistical keywords, in any case.
StatQuestion(q) == \E w \in StatWords : Contains(Lower(q), w)

\* The analysis is the fallback analysis of question q.
IsFallback(a, q) ==
    /\ a.ok
    /\ a.kind = "object"
    /\ HasKey(a, KeyConfidence)
    /\ GetKey(a, KeyConfidence) = [kind |-> "number", text |-> ValHalf]
    /\ HasKey(a, KeyColumns)
    /\ GetKey(a, KeyColumns) = [kind |-> "array", text |-> ValEmptyList]
    /\ HasKey(a, KeyAnalysisType)
    /\ GetKey(a, KeyAnalysisType) = [kind |-> "string", text |-> ValDescriptive]
    /\ HasKey(a, KeyType)
    /\ GetKey(a, KeyType) =
          [kind |-> "string",
           text |-> IF StatQuestion(q) THEN ValStatistical ELSE ValGeneral]

\* The text generate_response handed to analyze_query.
AnalysisText == Strip(replies[1].text)

\* C10 as claimed: for every completion text that is not valid JSON, analyze
\* returns the fallback analysis.
C10_FallbackWhenNotJson ==
    (Answered(1) /\ ~JsonLoads(AnalysisText).ok) =>
        /\ calls # <<"analyze">> \/ pc = "synthesize"
        /\ IsFallback(analysis, user_query)

\* C10, amended: for every completion text in which parse_json_response finds
\* no JSON value (neither the text with its fence markers removed nor its span
\* from the first "{" to the last "}" is valid JSON), analyze returns an
\* analysis with confidence 0.5, no columns, analysis_type descriptive, and
\* type statistical if the lower-cased question holds count, sum, average,
\* total or how many, and general otherwise.
C10_FallbackWhenUnparseable ==
    (Answered(1) /\ ~parse_json_response(AnalysisText).ok) =>
        /\ calls # <<"analyze">> \/ pc = "synthesize"
        /\ IsFallback(analysis, user_query)

\* The fallback classified a question whose keyword is capitalised.
C10_Witness ==
    /\ pc = "synthesize"
    /\ Answered(1)
    /\ replies[1].text = R_TwoObjects
    /\ user_query = Q_Total
    /\ GetKey(analysis, KeyType).text = ValStatistical


\* C11: every analysis the analyzer returned to the orchestrator, which the
\* synthesizer and the insight generator then consume, is a record holding a
\* confidence field, whether it was parsed from the backend's JSON or built by
\* the fallback.
C11_ConfidencePresent == analysis.ok => HasKey(analysis, KeyConfidence)

\* The word occurs in the text as a substring, in any mix of cases.
OccursIn(s, word) ==
    \E i \in 1..Len(s) :
        /\ i + Len(word) - 1 <= Len(s)
        /\ Upper(SubSeq(s, i, i + Len(word) - 1)) = word

\* The trimmed, upper-cased text begins with the word.
BeginsWith(s, word) ==
    /\ Len(Strip(s)) >= Len(word)
    /\ Upper(SubSeq(Strip(s), 1, Len(word))) = word

\* The k-th smallest member of a set of numbers.
KthOf(S, k) == CHOOSE x \in S : Cardinality({y \in S : y < x}) = k - 1

\* The reference result of validation, each error named by its kind: the
\* start error, then the denied words found, in the order of the denylist,
\* then the parentheses error.
ReferenceErrors(s) ==
    LET start == IF BeginsWith(s, KwSelect) \/ BeginsWith(s, KwWith)
                 THEN <<>> ELSE <<"Query must start with SELECT">>
        found == {k \in 1..Len(dangerous) : OccursIn(s, dangerous[k].text)}
        denied == [i \in 1..Cardinality(found) |-> dangerous[KthOf(found, i)].name]
        opened == Cardinality({i \in 1..Len(s) : s[i] = "("})
        closed == Cardinality({i \in 1..Len(s) : s[i] = ")"})
        parens == IF opened = closed THEN <<>> ELSE <<"Unbalanced parentheses">>
    IN  start \o denied \o parens

\* What distinguishes an error of validate_sql: its message, or the keyword
\* its message names.
ErrorKind(e) == e[Len(e)]

\* C12: every call of validate on a statement, however often repeated, gives
\* the reference result: the start error if the trimmed, upper-cased statement
\* begins with neither SELECT nor WITH, then one error for each denied word
\* that occurs in it in any case, then the parentheses error if the counts of
\* "(" and ")" differ; all three checks are always made, and valid is true
\* exactly when there is no error.
C12_ValidateIsReference ==
    /\ \A k \in 1..Len(gate) :
          /\ gate[k].sql = sql_result.sql
          /\ gate[k].valid = (ReferenceErrors(gate[k].sql) = <<>>)
    /\ Len(gate) >= 1 =>
          /\ Len(validation.errors) = Len(ReferenceErrors(sql_result.sql))
          /\ \A i \in 1..Len(validation.errors) :
                ErrorKind(validation.errors[i]) = ReferenceErrors(sql_result.sql)[i]
          /\ validation.valid = (validation.errors = <<>>)

\* A statement that opens with select and holds a denied word inside an
\* identifier has been validated twice and rejected for that word alone.
C12_Witness ==
    /\ Len(gate) = 2
    /\ BeginsWith(sql_result.sql, KwSelect)
    /\ validation.errors = << <<"Dangerous keyword: ", "CREATE">> >>
    /\ ~gate[1].valid /\ ~gate[2].valid

\* The text generate_response handed to generate_sql.
SynthesisText == Strip(replies[2].text)

\* The first fenced block of a text: what stands between the first code
\* fence, after its sql tag if it has one, and the next fence, trimmed.  ok is
\* FALSE when the text holds no pair of fences.
FencedBlock(text) ==
    LET open == Find(text, Fence, 1)
        tagged == open # 0 /\ MatchAt(Upper(text), open, Upper(FenceSql))
        body == IF tagged THEN open + Len(FenceSql) ELSE open + Len(Fence)
        close == IF open = 0 THEN 0 ELSE Find(text, Fence, body)
    IN  IF close = 0 THEN [ok |-> FALSE, contents |-> <<>>]
        ELSE [ok |-> TRUE, contents |-> Strip(SubSeq(text, body, close - 1))]

\* The text wraps a SELECT statement in a fenced block.
WrapsSelect(text) ==
    FencedBlock(text).ok /\ BeginsWith(FencedBlock(text).contents, KwSelect)

\* C13: the synthesizer's extraction never fails, and for every response that
\* wraps a SELECT statement in a fenced code block, with or without a language
\* tag, with any prose around it, the statement extracted is exactly the
\* contents of the block, trimmed, and holds no code fence.
C13_ExtractsFencedSelect ==
    Answered(2) =>
        /\ completed >= 2
        /\ WrapsSelect(SynthesisText) =>
              /\ sql_result.sql = FencedBlock(SynthesisText).contents
              /\ ~Contains(sql_result.sql, Fence)

\* The text with its code-fence markers stripped, as the parser reads it.
Unfenced(text) == Strip(RemoveWithSpace(RemoveWithSpace(text, FenceJson), Fence))

\* The position of the "}" that balances the "{" at position i, 0 when none does.
RECURSIVE BalancedEnd(_, _, _)
BalancedEnd(s, i, depth) ==
    IF i > Len(s) THEN 0
    ELSE IF s[i] = "{" THEN BalancedEnd(s, i + 1, depth + 1)
    ELSE IF s[i] = "}"
         THEN (IF depth = 1 THEN i ELSE BalancedEnd(s, i + 1, depth - 1))
    ELSE BalancedEnd(s, i + 1, depth)

\* What json.loads makes of the first balanced {...} span of the text.
FirstBalancedObject(s) ==
    LET a == Find(s, <<"{">>, 1)
        b == IF a = 0 THEN 0 ELSE BalancedEnd(s, a, 0)
    IN  IF b = 0 THEN JsonBad ELSE JsonLoads(SubSeq(s, a, b))

\* C14: when the direct parse of the unfenced text fails, the parser reads the
\* first balanced {...} span of the text: if that span is a valid JSON object
\* it is the analysis returned, whatever braces follow it, and the parser
\* fails (so that the analyzer falls back) only when the direct parse and that
\* span both fail.
C14_ParsesFirstBalancedSpan ==
    (Answered(1) /\ completed >= 1 /\ ~JsonLoads(Unfenced(AnalysisText)).ok) =>
        /\ FirstBalancedObject(Unfenced(AnalysisText)).ok =>
              analysis = FirstBalancedObject(Unfenced(AnalysisText))
        /\ ~parse_json_response(AnalysisText).ok =>
              ~FirstBalancedObject(Unfenced(AnalysisText)).ok

\* C15: every connection execute_sql opens is closed before it returns or
\* raises: after any call of the executor, whether it returned rows or failed,
\* no connection it acquired is still open.
C15_ConnectionReleased == connections = 0

\* The executor has raised on a statement that still holds a code fence.
C15_Witness ==
    /\ Len(executed) = 1
    /\ backend_error = "unrecognized token"
    /\ pc = "returned"
    /\ connections = 0

\* What the executor of this call would have done on the store as it was when
\* the call began.
ExecutedAlone == execute_sql(executed[1], store_at_call)

\* C16: calls running at the same time are independent: however the stages of
\* other calls interleave with those of this call, what this call got from
\* its executor, rows or error, is what it would have got running alone with
\* the same backend responses and the same contents of the store.
C16_RunsIndependent ==
    Len(executed) = 1 =>
        /\ ExecutedAlone.ok => (backend_error = "" /\ data = ExecutedAlone.rows)
        /\ ~ExecutedAlone.ok =>
              (Failed /\ backend_error = ExecutedAlone.diag
                      /\ result.error = ExecutedAlone.error)

\* C17: the template cache lives as long as the process: once a template has
\* been resolved, no later resolution of it, in the same run or in a later
\* one, reads storage again, so that no template file is read twice.
C17_CacheForProcessLifetime ==
    \A file \in AllPromptFiles : storage_reads[file] <= 1

\* C18: an outcome has success = true exactly when all five stages completed
\* in the run; such an outcome holds the analysis, the statement, the
\* explanation, the rows, the insights and a data_count equal to the number of
\* rows; an outcome with success = false holds an error message and neither
\* rows nor insights.
C18_SuccessIffAllStages ==
    pc = "returned" =>
        /\ "success" \in result.keys
        /\ result.success <=> (calls = StageOrder /\ completed = Len(StageOrder))
        /\ result.success =>
              /\ {"analysis", "sql", "sql_explanation", "data", "data_count",
                  "insights"} \subseteq result.keys
              /\ result.analysis = analysis
              /\ result.sql = executed[1]
              /\ result.sql_explanation = SynthesisText
              /\ result.data = data
              /\ result.data_count = Len(data)
              /\ result.insights = Strip(replies[3].text)
        /\ ~result.success =>
              /\ "error" \in result.keys
              /\ result.error # <<>>
              /\ result.keys \cap {"data", "data_count", "insights"} = {}
              /\ result.data = <<>>
              /\ result.insights = <<>>

\* A run has ended in success with one row and its insights.
C18_Witness ==
    /\ pc = "returned"
    /\ result.success
    /\ result.data_count = 1
    /\ Len(result.data) = 1
    /\ result.insights # <<>>
====
